---- MODULE Spec2Model ----
(***************************************************************************)
(* A model of Cache<K, V> of src/src/index.ts: a Map of CacheItems with a  *)
(* time to live, an optional maximum size, and asynchronous resolvers and  *)
(* revalidators.  The synchronous part of every method runs to completion  *)
(* (one action); an asynchronous method is suspended at every `await` of a *)
(* resolver or revalidator, and resumes when that function settles.        *)
(***************************************************************************)
EXTENDS Bags, FiniteSets, Integers, Sequences, TLC

\* Bounds of the model.
MaxKeys == 2
MaxTime == 2
MaxTtl == 2
MaxCap == 2
MaxList == 2
MaxTasks == 2

Keys == 1..MaxKeys

\* `undefined`, and the rejection of a promise.
Undefined == "undefined"
Rejects == "rejects"

\* The values V of the cache: strings, the empty string among them.
Values == {"", "bar", "baz"}

\* What a resolver or a revalidator call can settle with.
Outcomes == Values \cup {Undefined, Rejects}

VARIABLES
    cache,            \* the Map, as the sequence of its items in insertion order
    now,              \* the instant the wall clock gives: new Date().getTime()
    tasks,            \* the bag of suspended get and revalidate calls
    last,             \* what the last call or resumption did (observation)
    ttl,              \* options.ttl
    maxSize,          \* options.maxSize, 0 when not given
    resetTtlOnGet,    \* options.resetTtlOnGet
    revalidateOnGet,  \* options.revalidateOnGet
    resolvers,        \* this.resolvers
    revalidators      \* this.revalidators

vars == <<cache, now, tasks, last, ttl, maxSize, resetTtlOnGet,
          revalidateOnGet, resolvers, revalidators>>

config == <<ttl, maxSize, resetTtlOnGet, revalidateOnGet, resolvers, revalidators>>

----------------------------------------------------------------------------
\* Values and functions

\* JavaScript's truthiness of a string or undefined: `if (value)`.
Truthy(v) == v # Undefined /\ v # ""

\* The functions of a list: the configured ones and those passed with a call.
Fn(list, pos) == [list |-> list, pos |-> pos]

ConfiguredList(n) == [i \in 1..n |-> Fn("configured", i)]

PassedList(n) == [i \in 1..n |-> Fn("passed", i)]

\* The `options` of a call: none, or a list of functions (an empty array is
\* truthy, so it is used as given).
NoOptions == [given |-> FALSE, fns |-> <<>>]

CallOptions == {NoOptions} \cup {[given |-> TRUE, fns |-> PassedList(n)] : n \in 0..MaxList}

\* Mutant: the options of a call are ignored.
ListConfigured(options, configured) == configured

\* options?.resolve ? ... : this.resolvers
ListInUse(options, configured) == IF options.given THEN options.fns ELSE configured

----------------------------------------------------------------------------
\* The Map

Item(k, start, t, v) == [key |-> k, start |-> start, ttl |-> t, value |-> v]

KeysOf(c) == {c[i].key : i \in 1..Len(c)}

\* Map.get: <<>> for undefined, <<item>> otherwise.
MapGet(c, k) == SelectSeq(c, LAMBDA e : e.key = k)

\* Map.delete
MapDelete(c, k) == SelectSeq(c, LAMBDA e : e.key # k)

\* Map.set: an existing key keeps its place, a new one goes last.
MapSet(c, k, item) ==
    IF k \in KeysOf(c)
    THEN [i \in 1..Len(c) |-> IF c[i].key = k THEN item ELSE c[i]]
    ELSE Append(c, item)

\* Mutant: an item expires at the instant start + ttl.
ExpiredAtTtl(item, t) == item.start + item.ttl <= t

\* item.start + item.ttl < new Date().getTime()
Expired(item, t) == item.start + item.ttl < t

\* Mutant: the loop deletes no expired item.
RECURSIVE ScanKeeps(_, _, _, _, _)
ScanKeeps(entries, i, lru, kept, rs) ==
    IF i > Len(entries)
    THEN [lru |-> lru, kept |-> kept]
    ELSE LET item == entries[i]
             lru2 == IF lru = <<>> \/ item.start < lru[1].start THEN <<item>> ELSE lru
         IN  ScanKeeps(entries, i + 1, lru2, Append(kept, item), rs)

\* The loop of `set` over this.cache.entries(): lru is <<>> or <<item>>, kept
\* the items not deleted so far; the test of the i-th item reads the clock
\* anew, and the read gives rs[i].
RECURSIVE Scan(_, _, _, _, _)
Scan(entries, i, lru, kept, rs) ==
    IF i > Len(entries)
    THEN [lru |-> lru, kept |-> kept]
    ELSE LET item == entries[i]
             lru2 == IF lru = <<>> \/ item.start < lru[1].start THEN <<item>> ELSE lru
             kept2 == IF Expired(item, rs[i]) THEN kept ELSE Append(kept, item)
         IN  Scan(entries, i + 1, lru2, kept2, rs)

\* Mutant: the sweep starts only above the maximum size.
FullAbove(c) == maxSize # 0 /\ Len(c) > maxSize

\* if (this.maxSize && this.cache.size >= this.maxSize)
Full(c) == maxSize # 0 /\ Len(c) >= maxSize

\* The reads of the clock a `set` makes on the Map c: one for each item when
\* the Map is full, and one for the start of the new item.
SetReads(c) == IF Full(c) THEN Len(c) + 1 ELSE 1

\* The first part of `set`; rs are the reads of the clock of the `set`.
Evict(c, rs) ==
    IF Full(c)
    THEN LET s == Scan(c, 1, <<>>, <<>>, rs)
         IN  IF s.lru # <<>> THEN MapDelete(s.kept, s.lru[1].key) ELSE s.kept
    ELSE c

\* Cache.set; the last read of the clock gives the start of the new item.
CacheSet(c, k, v, rs) == MapSet(Evict(c, rs), k, Item(k, rs[Len(rs)], ttl, v))

\* return hit?.value || undefined
ReturnValue(hit) == IF hit # <<>> /\ Truthy(hit[1].value) THEN hit[1].value ELSE Undefined

----------------------------------------------------------------------------
\* Suspended calls and observations

\* A call suspended at its first `await`: fns is the list in use and invoked
\* the functions invoked so far, the last of which it awaits; detached tells a
\* `revalidate` that `get` started without awaiting it; options is the
\* argument of the call.
Task(op, k, options, fns, detached) ==
    [op |-> op, key |-> k, options |-> options, fns |-> fns,
     invoked |-> <<fns[1]>>, detached |-> detached]

One(t) == SetToBag({t})

Free(ts) == BagCardinality(ts) < MaxTasks

\* The observation of a step: the call made (set, delete, get, revalidate) or
\* resumed (resolved: a `get`, revalidated: a `revalidate`), its key and its
\* options, the value passed to `set` or the outcome the awaited function settled with
\* (undefined: it returned no value), what the call returned and
\* how it ended (returned, suspended, rejected, threw), whether `get` found the
\* key unexpired (hit) or removed it as expired (purged), what became of the
\* revalidation `get` started, the functions the call has invoked, and, for
\* `set`, whether the Map was full and how many of its items the scan found
\* expired; reads are the instants the step read on the clock, in order.
Event(op, k) ==
    [op |-> op, key |-> k, options |-> NoOptions,
     value |-> Undefined, result |-> Undefined,
     status |-> "returned", hit |-> FALSE, purged |-> FALSE,
     launched |-> "no", invoked |-> <<>>, full |-> FALSE, stale |-> 0,
     reads |-> <<>>]

\* The number of items of c the scan of a `set` with the reads rs finds
\* expired (none when the Map is not full: there is no scan).
Stale(c, rs) == Cardinality({i \in 1..Len(c) : i < Len(rs) /\ Expired(c[i], rs[i])})

\* new Date().getTime(): the wall clock.  It may give another instant at every
\* read, within a call too, and it is not monotonic.
Instants == 0..MaxTime

\* The n reads of the clock that follow the reads `done` of a step: the first
\* read of a step gives now.
Clock(done, n) == {rs \in [1..n -> Instants] : (done = <<>> /\ n > 0) => rs[1] = now}

\* The clock after the reads rs of a step.
After(rs) == IF rs = <<>> THEN now ELSE rs[Len(rs)]

----------------------------------------------------------------------------
Configs ==
    [ttl : 1..MaxTtl, maxSize : 0..MaxCap, resetTtlOnGet : BOOLEAN,
     revalidateOnGet : BOOLEAN, resolvers : 0..MaxList, revalidators : 0..MaxList]

InitWith(cfgs) ==
    /\ cache = <<>>
    /\ now = 0
    /\ tasks = EmptyBag
    /\ last = Event("new", 0)
    /\ \E cfg \in cfgs :
        /\ ttl = cfg.ttl
        /\ maxSize = cfg.maxSize
        /\ resetTtlOnGet = cfg.resetTtlOnGet
        /\ revalidateOnGet = cfg.revalidateOnGet
        /\ resolvers = ConfiguredList(cfg.resolvers)
        /\ revalidators = ConfiguredList(cfg.revalidators)

\* Between two steps the clock moves, forward or backward.
Tick ==
    /\ now' \in Instants \ {now}
    /\ last' = Event("tick", 0)
    /\ UNCHANGED <<cache, tasks, config>>

\* cache.set(k, v)
Set(k, v) ==
    \E rs \in Clock(<<>>, SetReads(cache)) :
        /\ cache' = CacheSet(cache, k, v, rs)
        /\ now' = After(rs)
        /\ last' = [Event("set", k) EXCEPT !.value = v, !.full = Full(cache),
                                           !.stale = Stale(cache, rs), !.reads = rs]
        /\ UNCHANGED <<tasks, config>>

\* cache.delete(k)
Delete(k) ==
    /\ cache' = MapDelete(cache, k)
    /\ last' = Event("delete", k)
    /\ UNCHANGED <<now, tasks, config>>

\* Mutant: `get` revalidates whether or not it has a hit.
GetEndRevalidatesMiss(c, ts, hit, fns, k, ev) ==
    LET resets == hit # <<>> /\ resetTtlOnGet
        revalidates == revalidateOnGet /\ Len(fns) = 0
        suspends == revalidates /\ Len(revalidators) > 0
    IN  /\ suspends => Free(ts)
        /\ \E rs \in Clock(ev.reads, IF resets THEN SetReads(c) ELSE 0) :
            /\ cache' = IF resets THEN CacheSet(c, k, hit[1].value, rs) ELSE c
            /\ now' = After(ev.reads \o rs)
            /\ last' = [ev EXCEPT !.result = ReturnValue(hit),
                                  !.launched = IF suspends THEN "suspended"
                                               ELSE IF revalidates THEN "threw"
                                               ELSE "no",
                                  !.reads = ev.reads \o rs]
        /\ tasks' = IF suspends
                    THEN ts (+) One(Task("revalidate", k, NoOptions, revalidators, TRUE))
                    ELSE ts

\* Mutant: `get` revalidates every hit, a value just resolved included.
GetEndRevalidatesResolved(c, ts, hit, fns, k, ev) ==
    LET resets == hit # <<>> /\ resetTtlOnGet
        revalidates == hit # <<>> /\ revalidateOnGet
        suspends == revalidates /\ Len(revalidators) > 0
    IN  /\ suspends => Free(ts)
        /\ \E rs \in Clock(ev.reads, IF resets THEN SetReads(c) ELSE 0) :
            /\ cache' = IF resets THEN CacheSet(c, k, hit[1].value, rs) ELSE c
            /\ now' = After(ev.reads \o rs)
            /\ last' = [ev EXCEPT !.result = ReturnValue(hit),
                                  !.launched = IF suspends THEN "suspended"
                                               ELSE IF revalidates THEN "threw"
                                               ELSE "no",
                                  !.reads = ev.reads \o rs]
        /\ tasks' = IF suspends
                    THEN ts (+) One(Task("revalidate", k, NoOptions, revalidators, TRUE))
                    ELSE ts

\* Mutant: `get` writes every hit again, whatever resetTtlOnGet.
GetEndTouches(c, ts, hit, fns, k, ev) ==
    LET resets == hit # <<>>
        revalidates == hit # <<>> /\ revalidateOnGet /\ Len(fns) = 0
        suspends == revalidates /\ Len(revalidators) > 0
    IN  /\ suspends => Free(ts)
        /\ \E rs \in Clock(ev.reads, IF resets THEN SetReads(c) ELSE 0) :
            /\ cache' = IF resets THEN CacheSet(c, k, hit[1].value, rs) ELSE c
            /\ now' = After(ev.reads \o rs)
            /\ last' = [ev EXCEPT !.result = ReturnValue(hit),
                                  !.launched = IF suspends THEN "suspended"
                                               ELSE IF revalidates THEN "threw"
                                               ELSE "no",
                                  !.reads = ev.reads \o rs]
        /\ tasks' = IF suspends
                    THEN ts (+) One(Task("revalidate", k, NoOptions, revalidators, TRUE))
                    ELSE ts

\* The end of `get`, from `if (hit && this.resetTtlOnGet)` on: c is the Map
\* and ts the suspended calls at that point, fns the resolvers in use, and
\* ev.reads the reads of the clock the step has made so far.
GetEnd(c, ts, hit, fns, k, ev) ==
    LET resets == hit # <<>> /\ resetTtlOnGet
        revalidates == hit # <<>> /\ revalidateOnGet /\ Len(fns) = 0
        suspends == revalidates /\ Len(revalidators) > 0
    IN  /\ suspends => Free(ts)
        /\ \E rs \in Clock(ev.reads, IF resets THEN SetReads(c) ELSE 0) :
            /\ cache' = IF resets THEN CacheSet(c, k, hit[1].value, rs) ELSE c
            /\ now' = After(ev.reads \o rs)
            /\ last' = [ev EXCEPT !.result = ReturnValue(hit),
                                  !.launched = IF suspends THEN "suspended"
                                               ELSE IF revalidates THEN "threw"
                                               ELSE "no",
                                  !.reads = ev.reads \o rs]
        /\ tasks' = IF suspends
                    THEN ts (+) One(Task("revalidate", k, NoOptions, revalidators, TRUE))
                    ELSE ts

\* cache.get(k, options), up to its first `await` or to its end; it reads
\* the clock once if it finds its key, to test the expiry.
Get(k, options) ==
    LET found == MapGet(cache, k)
        purge == found # <<>> /\ Expired(found[1], now)
        c1 == IF purge THEN MapDelete(cache, k) ELSE cache
        hit == IF purge THEN <<>> ELSE found
        fns == ListInUse(options, resolvers)
        ev == [Event("get", k) EXCEPT !.options = options, !.hit = (hit # <<>>),
                                      !.purged = purge,
                                      !.reads = IF found # <<>> THEN <<now>> ELSE <<>>]
    IN  /\ UNCHANGED config
        /\ IF hit = <<>> /\ Len(fns) > 0
           THEN /\ Free(tasks)
                /\ cache' = c1
                /\ now' = now
                /\ tasks' = tasks (+) One(Task("get", k, options, fns, FALSE))
                /\ last' = [ev EXCEPT !.status = "suspended", !.invoked = <<fns[1]>>]
           ELSE GetEnd(c1, tasks, hit, fns, k, ev)

\* The resolver a suspended `get` awaits settles with `out`.
Resolved(t, out) ==
    LET rest == tasks (-) One(t)
        ev == [Event("resolved", t.key) EXCEPT !.options = t.options, !.value = out,
                                               !.invoked = t.invoked]
    IN  /\ t.op = "get"
        /\ UNCHANGED config
        /\ IF out = Rejects
           THEN /\ cache' = cache
                /\ now' = now
                /\ tasks' = rest
                /\ last' = [ev EXCEPT !.status = "rejected"]
           ELSE IF Truthy(out)
           THEN \E rs \in Clock(<<>>, SetReads(cache)) :
                    GetEnd(CacheSet(cache, t.key, out, rs), rest,
                           <<Item(t.key, After(rs), ttl, out)>>, t.fns, t.key,
                           [ev EXCEPT !.reads = rs])
           ELSE IF Len(t.invoked) < Len(t.fns)
           THEN LET next == Append(t.invoked, t.fns[Len(t.invoked) + 1])
                IN  /\ cache' = cache
                    /\ now' = now
                    /\ tasks' = rest (+) One([t EXCEPT !.invoked = next])
                    /\ last' = [ev EXCEPT !.status = "suspended", !.invoked = next]
           ELSE GetEnd(cache, rest, <<>>, t.fns, t.key, ev)

\* Mutant: `revalidate` does not throw on an empty list; it goes on to its end
\* with no value.
RevalidateNoThrow(k, options) ==
    LET fns == ListInUse(options, revalidators)
        ev == [Event("revalidate", k) EXCEPT !.options = options]
    IN  /\ UNCHANGED <<now, config>>
        /\ IF Len(fns) = 0
           THEN /\ cache' = MapDelete(cache, k)
                /\ tasks' = tasks
                /\ last' = ev
           ELSE /\ Free(tasks)
                /\ cache' = cache
                /\ tasks' = tasks (+) One(Task("revalidate", k, options, fns, FALSE))
                /\ last' = [ev EXCEPT !.status = "suspended", !.invoked = <<fns[1]>>]

\* cache.revalidate(k, options), up to its first `await` or to its throw.
Revalidate(k, options) ==
    LET fns == ListInUse(options, revalidators)
        ev == [Event("revalidate", k) EXCEPT !.options = options]
    IN  /\ UNCHANGED <<now, cache, config>>
        /\ IF Len(fns) = 0
           THEN /\ tasks' = tasks
                /\ last' = [ev EXCEPT !.status = "threw"]
           ELSE /\ Free(tasks)
                /\ tasks' = tasks (+) One(Task("revalidate", k, options, fns, FALSE))
                /\ last' = [ev EXCEPT !.status = "suspended", !.invoked = <<fns[1]>>]

\* Mutant: `revalidate` keeps the item when no value was returned.
RevalidateEndKeeps(c, k, value, rs) ==
    IF Truthy(value) THEN CacheSet(c, k, value, rs) ELSE c

\* The end of `revalidate`: if (value) this.set(key, value);
\* if (!value) this.delete(key).
RevalidateEnd(c, k, value, rs) ==
    IF Truthy(value) THEN CacheSet(c, k, value, rs) ELSE MapDelete(c, k)

\* The revalidator a suspended `revalidate` awaits settles with `out`.
Revalidated(t, out) ==
    LET rest == tasks (-) One(t)
        ev == [Event("revalidated", t.key) EXCEPT !.options = t.options,
                                                 !.value = out, !.invoked = t.invoked,
                                                 !.hit = (t.key \in KeysOf(cache)),
                                                 !.launched = IF t.detached THEN "detached" ELSE "no"]
    IN  /\ t.op = "revalidate"
        /\ UNCHANGED config
        /\ IF out = Rejects
           THEN /\ cache' = cache
                /\ now' = now
                /\ tasks' = rest
                /\ last' = [ev EXCEPT !.status = "rejected"]
           ELSE IF ~Truthy(out) /\ Len(t.invoked) < Len(t.fns)
           THEN LET next == Append(t.invoked, t.fns[Len(t.invoked) + 1])
                IN  /\ cache' = cache
                    /\ now' = now
                    /\ tasks' = rest (+) One([t EXCEPT !.invoked = next])
                    /\ last' = [ev EXCEPT !.status = "suspended", !.invoked = next]
           ELSE \E rs \in Clock(<<>>, IF Truthy(out) THEN SetReads(cache) ELSE 0) :
                    /\ cache' = RevalidateEnd(cache, t.key, out, rs)
                    /\ now' = After(rs)
                    /\ tasks' = rest
                    /\ last' = [ev EXCEPT !.reads = rs]

----------------------------------------------------------------------------
\* Specifications.  Callers use the keys of K and pass no options.

Writes(K) ==
    \/ \E k \in K, v \in Values : Set(k, v)
    \/ \E k \in K : Delete(k)

Reads(K) == \E k \in K : Get(k, NoOptions)

Settles ==
    \/ \E t \in BagToSet(tasks), out \in Outcomes : Resolved(t, out)
    \/ \E t \in BagToSet(tasks), out \in Outcomes : Revalidated(t, out)

\* A cache with MaxList revalidators, MaxList resolvers or none, and a ttl of
\* 1: with a maximum size of 1, or with none, no resolvers and revalidateOnGet
\* alone.
Init == InitWith({c \in Configs : /\ c.ttl = 1
                                  /\ c.resolvers \in {0, MaxList}
                                  /\ c.revalidators = MaxList
                                  /\ \/ c.maxSize = 1
                                     \/ /\ c.maxSize = 0 /\ c.resolvers = 0
                                        /\ c.revalidateOnGet /\ ~c.resetTtlOnGet})

Next ==
    \/ Tick
    \/ Writes(Keys)
    \/ Reads(Keys)
    \/ \E k \in Keys : Revalidate(k, NoOptions)
    \/ Settles

Spec == Init /\ [][Next]_vars

\* A cache with a maximum size of 1, resetTtlOnGet and revalidateOnGet, used
\* with MaxKeys keys: every call that writes, a resolution, a revalidation and
\* a refresh on read among them.
InitBound == InitWith({c \in Configs : /\ c.ttl = 1
                                       /\ c.maxSize = 1
                                       /\ c.resetTtlOnGet /\ c.revalidateOnGet
                                       /\ c.resolvers \in {0, MaxList}
                                       /\ c.revalidators = MaxList})

SpecBound == InitBound /\ [][Next]_vars

\* A cache with no resolvers and no revalidators: no call is ever suspended.
InitSync == InitWith({c \in Configs : c.resolvers = 0 /\ c.revalidators = 0})

NextSync ==
    \/ Tick
    \/ Writes(Keys)
    \/ Reads(Keys)

SpecSync == InitSync /\ [][NextSync]_vars

\* A cache with a maximum size, and one more key than the largest of them.
CapKeys == 1..(MaxCap + 1)

InitCap == InitWith({c \in Configs : /\ c.maxSize > 0
                                     /\ ~c.revalidateOnGet
                                     /\ c.resolvers = 0 /\ c.revalidators = 0})

NextCap ==
    \/ Tick
    \/ Writes(CapKeys)
    \/ Reads(CapKeys)

SpecCap == InitCap /\ [][NextCap]_vars

\* Callers pass every kind of options: none, an empty list, a list of
\* functions of their own.
Calls(K) ==
    \/ \E k \in K, options \in CallOptions : Get(k, options)
    \/ \E k \in K, options \in CallOptions : Revalidate(k, options)

\* A cache with no maximum size, with MaxList resolvers or none and MaxList
\* revalidators or none; the callers use one key.
InitOverride == InitWith({c \in Configs : /\ c.ttl = 1
                                          /\ c.maxSize = 0
                                          /\ ~c.resetTtlOnGet
                                          /\ c.resolvers \in {0, MaxList}
                                          /\ c.revalidators \in {0, MaxList}})

NextOverride ==
    \/ Tick
    \/ Writes({1})
    \/ Calls({1})
    \/ Settles

SpecOverride == InitOverride /\ [][NextOverride]_vars

\* The suspended `get` calls a cache with MaxList resolvers can have.
GetTasks ==
    {[Task("get", k, NoOptions, ConfiguredList(MaxList), FALSE)
         EXCEPT !.invoked = ConfiguredList(n)] : k \in Keys, n \in 1..MaxList}

\* The resolver the suspended `get` t awaits settles.
Completes(t) == \E out \in Outcomes : BagIn(t, tasks) /\ Resolved(t, out)

\* A cache with revalidateOnGet, with MaxList resolvers or none and MaxList
\* revalidators or none; the callers use one key.  Every resolver call
\* completes; a revalidator call need not.
InitLive == InitWith({c \in Configs : /\ c.ttl = 1
                                      /\ c.maxSize = 0
                                      /\ ~c.resetTtlOnGet /\ c.revalidateOnGet
                                      /\ c.resolvers \in {0, MaxList}
                                      /\ c.revalidators \in {0, MaxList}})

NextLive ==
    \/ Tick
    \/ Writes({1})
    \/ Reads({1})
    \/ Settles

SpecLive ==
    /\ InitLive /\ [][NextLive]_vars
    /\ \A t \in GetTasks : WF_vars(Completes(t))

----------------------------------------------------------------------------
\* Claims

\* C1: set(k, v) followed immediately by get(k), with no time elapsed and no
\* other call in between, returns v, for every value v, falsy ones included.
C1_RoundTrip ==
    [][(last.op = "set" /\ last'.op = "get" /\ last'.key = last.key /\ ttl > 0)
       => (last'.status = "returned" /\ last'.result = last.value)]_vars

\* The item stored under k when a step starts.
Stored(k) == MapGet(cache, k)[1]

\* C2, as stated: a get(k) started at now >= written_at + ttl, the instant
\* written_at + ttl included, returns absent and removes k; one started before
\* returns the stored value (a value `get` can return: see C1).
C2_ExpiryAtTtl ==
    [][\A k \in Keys :
        (last'.op = "get" /\ last'.key = k /\ k \in KeysOf(cache))
        => IF now >= Stored(k).start + Stored(k).ttl
           THEN last'.result = Undefined /\ k \notin KeysOf(cache')
           ELSE Truthy(Stored(k).value) => last'.result = Stored(k).value]_vars

\* C2, amended: a get(k) started at now > written_at + ttl returns absent and
\* removes k; one started at now <= written_at + ttl, the instant
\* written_at + ttl included, leaves k stored and returns the stored value
\* (absent for a falsy one: C1).
C2_Expiry ==
    [][\A k \in Keys :
        (last'.op = "get" /\ last'.key = k /\ k \in KeysOf(cache))
        => IF now > Stored(k).start + Stored(k).ttl
           THEN last'.result = Undefined /\ k \notin KeysOf(cache')
           ELSE /\ k \in KeysOf(cache')
                /\ last'.result = IF Truthy(Stored(k).value) THEN Stored(k).value
                                  ELSE Undefined]_vars

\* A get has just found its key expired and removed it.
C2_Witness ==
    /\ last.op = "get" /\ last.purged
    /\ last.result = Undefined
    /\ last.key \notin KeysOf(cache)

\* C3: with a maximum size configured, the number of stored items is at most
\* the maximum size whenever no `set` is in progress (in every state: `set`
\* never suspends), whatever calls, resolutions, revalidations and refreshes
\* on read have been made.
C3_CapacityBound == maxSize # 0 => Len(cache) <= maxSize

\* A `set` has just found the Map full, while a call is suspended, and the Map
\* holds the maximum size again.
C3_Witness ==
    /\ last.op = "set" /\ last.full
    /\ tasks # EmptyBag
    /\ Len(cache) = maxSize

\* The Map c without its i-th item.
RemoveAt(c, i) == SubSeq(c, 1, i - 1) \o SubSeq(c, i + 1, Len(c))

\* The positions of the items of c that are past their ttl at t (the test of
\* the scan: start + ttl < t), and those of the items of least start.
PastTtl(c, t) == {i \in 1..Len(c) : c[i].start + c[i].ttl < t}

Oldest(c) == {i \in 1..Len(c) : \A j \in 1..Len(c) : c[i].start <= c[j].start}

\* C4: a set(k, v) called with the Map full and no stored item expired (at
\* the instant the call starts) removes exactly one item, one whose start
\* (written_at) is minimal, leaves every other item unchanged and inserts k;
\* so a key that was not stored leaves the size at the maximum size and the
\* removed key absent.
C4_EvictsLeastRecentlyWritten ==
    [][\A k \in CapKeys :
        (last'.op = "set" /\ last'.key = k /\ Full(cache) /\ PastTtl(cache, now) = {})
        => \E i \in 1..Len(cache) :
            /\ \A j \in 1..Len(cache) : cache[i].start <= cache[j].start
            /\ cache' = MapSet(RemoveAt(cache, i), k, Item(k, now', ttl, last'.value))
            /\ (k \notin KeysOf(cache) /\ Len(cache) = maxSize)
               => (Len(cache') = maxSize /\ cache[i].key \notin KeysOf(cache'))]_vars

\* C5: after a `set` that found the Map full, no item other than the one just
\* written is expired as of the time of the scan (start + ttl < the instant the
\* scan read to test the item); when the scan took place at one instant, none
\* is expired at that instant; if the scan found every item expired, the one
\* just written is the only one left.
C5_SweepRemovesExpired ==
    [][\A k \in CapKeys :
        (last'.op = "set" /\ last'.key = k /\ Full(cache))
        => /\ \A i \in 1..Len(cache) :
               (cache[i].key # k /\ cache[i].key \in KeysOf(cache'))
               => /\ MapGet(cache', cache[i].key) = <<cache[i]>>
                  /\ ~Expired(cache[i], last'.reads[i])
           /\ KeysOf(cache') \subseteq KeysOf(cache) \cup {k}
           /\ (\A i \in 1..Len(cache) : last'.reads[i] = now)
              => \A i \in 1..Len(cache') :
                  cache'[i].key # k => ~Expired(cache'[i], now)
           /\ Stale(cache, last'.reads) >= maxSize => Len(cache') = 1]_vars

\* A `set` has just found the Map full of two or more items, all expired, and
\* left only its own.
C5_Witness ==
    /\ last.op = "set" /\ last.full
    /\ last.stale > 1 /\ last.stale = maxSize
    /\ Len(cache) = 1 /\ cache[1].key = last.key

\* C6: a `get` that misses invokes the resolvers of its list in list order,
\* the next one only after the one before has completed with no value; once a
\* resolver yields a present value v, no later one is invoked, v is written
\* under the key with start = now, and `get` returns v.
C6_ResolutionOrder ==
    /\ \A t \in BagToSet(tasks) :
        t.op = "get" => t.invoked = SubSeq(t.fns, 1, Len(t.invoked))
    /\ (last.op = "resolved" /\ last.status = "suspended") => last.value = Undefined
    /\ (last.op = "resolved" /\ last.value \in Values)
       => /\ last.status = "returned" /\ last.result = last.value
          /\ MapGet(cache, last.key) = <<Item(last.key, now, ttl, last.value)>>

\* C7: a resolver that fails is taken as no value: `get` goes on to the next
\* resolver, or returns absent after the last one, and never fails itself.
C7_FailuresAbsorbed ==
    (last.op = "resolved" /\ last.value = Rejects)
    => \/ last.status = "suspended"
       \/ last.status = "returned" /\ last.result = Undefined

\* C8: with revalidateOnGet and a revalidator configured, every `get` that
\* finds its key stored and unexpired starts a revalidation, whether or not
\* resolvers are configured.
C8_RevalidatesEveryHit ==
    (last.op = "get" /\ last.hit /\ revalidateOnGet /\ Len(revalidators) > 0)
    => last.launched = "suspended"

\* A revalidation started by `get` has settled with the present value e.value.
RevalidatedWith(e) ==
    e.op = "revalidated" /\ e.launched = "detached" /\ e.value \in Values

\* C9: with revalidateOnGet, a `get` that hits returns the stored value without
\* waiting; once the revalidation it started completes with a present value w,
\* the Map holds w under the key with start = now (the instant the write
\* reads), and a `get` that follows returns w.
C9_StaleWhileRevalidate ==
    [][/\ \A k \in Keys :
           (last'.op = "get" /\ last'.key = k /\ last'.hit /\ revalidateOnGet)
           => (last'.status = "returned" /\ last'.result = Stored(k).value)
       /\ RevalidatedWith(last')
          => MapGet(cache', last'.key) = <<Item(last'.key, now', ttl, last'.value)>>
       /\ (RevalidatedWith(last) /\ last'.op = "get" /\ last'.key = last.key)
          => last'.result = last.value]_vars

\* A `revalidate` has completed, its last revalidator returning absent.
RevalidatedAbsent(e) ==
    e.op = "revalidated" /\ e.status = "returned" /\ e.value = Undefined

\* C10: when `revalidate` completes with no revalidator of a non-empty list
\* having returned a value, its key is not in the Map, expired or not; with no
\* resolvers, a get of that key that follows returns absent.
C10_RevalidationEvicts ==
    [][/\ RevalidatedAbsent(last') => last'.key \notin KeysOf(cache')
       /\ (RevalidatedAbsent(last) /\ last'.op = "get" /\ last'.key = last.key
              /\ Len(resolvers) = 0)
          => (last'.status = "returned" /\ last'.result = Undefined)]_vars

\* A `revalidate` whose revalidators all returned absent has just removed a
\* stored, unexpired key.
C10_Witness ==
    /\ RevalidatedAbsent(last) /\ last.hit
    /\ Len(last.invoked) > 1
    /\ last.key \notin KeysOf(cache)

\* C11: a revalidator that fails is taken as no value: `revalidate` goes on to
\* the next revalidator, or, after the last one, deletes the key and returns;
\* it never fails itself.
C11_RevalidatorFailuresAbsorbed ==
    (last.op = "revalidated" /\ last.value = Rejects)
    => IF Len(last.invoked) < Len(ListInUse(last.options, revalidators))
       THEN last.status = "suspended"
       ELSE last.status = "returned" /\ last.key \notin KeysOf(cache)

\* The list a call with the options of e is to use: the one it was given if
\* it was given one, else the configured one.
InUse(e, configured) == IF e.options.given THEN e.options.fns ELSE configured

\* C12: a `revalidate` whose list in use (the one passed if one was passed,
\* else the configured one) is empty fails before any suspension: it invokes
\* no revalidator, suspends nothing and leaves the Map unchanged; so does the
\* revalidation a `get` starts with no revalidator configured.
C12_ConfigurationError ==
    [][/\ (last'.op = "revalidate" /\ Len(InUse(last', revalidators)) = 0)
          => /\ last'.status = "threw" /\ last'.invoked = <<>>
             /\ tasks' = tasks
             /\ cache' = cache
       /\ (last'.op = "revalidate" /\ Len(InUse(last', revalidators)) > 0)
          => last'.status = "suspended"
       /\ (last'.op = "get" /\ last'.launched = "threw")
          => tasks' = tasks /\ last'.key \in KeysOf(cache')]_vars

\* A `revalidate` passed an empty list, with revalidators configured, has just
\* failed, and its key is still stored.
C12_Witness ==
    /\ last.op = "revalidate" /\ last.status = "threw"
    /\ last.options.given /\ Len(revalidators) > 0
    /\ last.key \in KeysOf(cache)

\* C15: the functions a call invokes are the first ones of the list it was
\* passed, if it was passed one, and of the configured list otherwise; the
\* configured lists never change, and a call with no list of its own that
\* follows a call with one invokes the configured functions.
C15_TransientOverride ==
    [][/\ resolvers' = resolvers /\ revalidators' = revalidators
       /\ last'.op \in {"get", "resolved"}
          => last'.invoked = SubSeq(InUse(last', resolvers), 1, Len(last'.invoked))
       /\ last'.op \in {"revalidate", "revalidated"}
          => last'.invoked = SubSeq(InUse(last', revalidators), 1, Len(last'.invoked))
       /\ (last'.op = "get" /\ ~last'.hit /\ Len(InUse(last', resolvers)) > 0)
          => last'.invoked = <<InUse(last', resolvers)[1]>>
       /\ (last'.op = "revalidate" /\ Len(InUse(last', revalidators)) > 0)
          => last'.invoked = <<InUse(last', revalidators)[1]>>
       /\ \A t \in BagToSet(tasks') :
           t.invoked = SubSeq(InUse(t, IF t.op = "get" THEN resolvers ELSE revalidators),
                              1, Len(t.invoked))]_vars

\* A `get` with no list of its own has just invoked the first configured
\* resolver, while a `get` passed a list awaits the last function of that list.
C15_Witness ==
    /\ last.op = "get" /\ ~last.options.given
    /\ Len(resolvers) > 0
    /\ last.invoked = <<resolvers[1]>>
    /\ \E t \in BagToSet(tasks) :
        /\ t.op = "get" /\ t.options.given
        /\ t.invoked = PassedList(MaxList)

\* C13: with resetTtlOnGet, a `get` that hits at time t writes its key again
\* with the same value and start = t; and every `get` of a stored key before
\* start + ttl, the start a refresh has set included, returns the stored value.
C13_RefreshOnRead ==
    [][\A k \in Keys :
        /\ (last'.op = "get" /\ last'.key = k /\ last'.hit /\ resetTtlOnGet)
           => MapGet(cache', k) = <<Item(k, now, ttl, Stored(k).value)>>
        /\ (last'.op = "get" /\ last'.key = k /\ resetTtlOnGet
               /\ k \in KeysOf(cache) /\ now < Stored(k).start + Stored(k).ttl)
           => last'.result = Stored(k).value]_vars

\* C14: a `get` that misses changes the Map by the removal of its expired key
\* alone; with an empty list in use it returns absent at once, starting no
\* revalidation.  A resolver returning absent changes nothing: `get` invokes
\* the next one, or after the last one returns absent, the Map unchanged and
\* no revalidation started.
C14_UnresolvedMissWritesNothing ==
    [][/\ (last'.op = "get" /\ ~last'.hit)
          => /\ cache' = IF last'.purged THEN MapDelete(cache, last'.key) ELSE cache
             /\ Len(InUse(last', resolvers)) = 0
                => /\ last'.status = "returned" /\ last'.result = Undefined
                   /\ last'.launched = "no" /\ tasks' = tasks
       /\ (last'.op = "resolved" /\ last'.value = Undefined)
          => /\ cache' = cache
             /\ IF last'.status = "suspended"
                THEN /\ Len(last'.invoked) > 1
                     /\ last'.invoked = SubSeq(InUse(last', resolvers), 1, Len(last'.invoked))
                     /\ BagCardinality(tasks') = BagCardinality(tasks)
                ELSE /\ last'.invoked = InUse(last', resolvers)
                     /\ last'.status = "returned" /\ last'.result = Undefined
                     /\ last'.launched = "no"
                     /\ BagCardinality(tasks') = BagCardinality(tasks) - 1]_vars

\* A `get` has just returned absent after the last of several resolvers
\* returned absent, with revalidateOnGet and revalidators configured.
C14_Witness ==
    /\ last.op = "resolved" /\ last.value = Undefined
    /\ last.status = "returned" /\ last.result = Undefined
    /\ Len(last.invoked) > 1
    /\ revalidateOnGet /\ Len(revalidators) > 0

\* C16: with revalidateOnGet, a `get` that missed and ends after the resolvers
\* it invoked, one of them having yielded its value, starts no revalidation:
\* no `revalidate` call is added to the suspended calls.
C16_ResolvedNotRevalidated ==
    [][(last'.op = "resolved" /\ last'.status = "returned" /\ revalidateOnGet)
       => /\ last'.launched = "no"
          /\ \A t \in BagToSet(tasks') :
              t.op = "revalidate" => CopiesIn(t, tasks') = CopiesIn(t, tasks)]_vars

\* A `get` has just returned the value a resolver yielded and stored it, with
\* revalidateOnGet and revalidators configured.
C16_Witness ==
    /\ last.op = "resolved" /\ last.status = "returned"
    /\ Truthy(last.value) /\ last.result = last.value
    /\ last.key \in KeysOf(cache)
    /\ revalidateOnGet /\ Len(revalidators) > 0

\* C17: a `get` that misses with resolvers in use invokes the first of them
\* and is suspended on it, whatever calls are suspended already, a `get` of
\* the same key among them; and whenever the resolver a `get` awaits yields a
\* present value, that `get` writes the value under its key with start = now
\* (the instant the write reads).
C17_NoSingleFlight ==
    [][/\ (last'.op = "get" /\ ~last'.hit /\ Len(InUse(last', resolvers)) > 0)
          => /\ last'.status = "suspended"
             /\ last'.invoked = <<InUse(last', resolvers)[1]>>
             /\ BagCardinality(tasks') = BagCardinality(tasks) + 1
       /\ (last'.op = "resolved" /\ last'.value \in Values)
          => MapGet(cache', last'.key) = <<Item(last'.key, now', ttl, last'.value)>>]_vars

\* C18: with neither resetTtlOnGet nor revalidateOnGet, a `get` that hits
\* leaves the Map as it was, the start of its key and the order of the items
\* included, and starts nothing: the item a following `set` evicts is the same
\* as before the read.
C18_PlainReadDoesNotTouch ==
    [][(last'.op = "get" /\ last'.hit /\ ~resetTtlOnGet /\ ~revalidateOnGet)
       => /\ cache' = cache
          /\ tasks' = tasks
          /\ MapGet(cache', last'.key)[1].start = Stored(last'.key).start
          /\ \A k \in CapKeys, v \in Values :
              \A rs \in [1..SetReads(cache) -> Instants] :
                  CacheSet(cache', k, v, rs) = CacheSet(cache, k, v, rs)]_vars

\* A `get` has just hit the oldest item of a full Map, written before now, with
\* neither resetTtlOnGet nor revalidateOnGet.
C18_Witness ==
    /\ last.op = "get" /\ last.hit
    /\ ~resetTtlOnGet /\ ~revalidateOnGet
    /\ maxSize > 1 /\ Len(cache) = maxSize
    /\ \A i \in 1..Len(cache) :
        IF cache[i].key = last.key THEN cache[i].start < now
        ELSE cache[i].start > MapGet(cache, last.key)[1].start

\* The `get` that t is a suspension of has just returned to its caller.
Returned(t) ==
    /\ last.op = "resolved" /\ last.key = t.key /\ last.options = t.options
    /\ last.status = "returned"

\* C19: a `get` that hits returns the stored value at once and without error,
\* whether the revalidation it starts is suspended (and may never complete) or
\* fails for want of revalidators; the failure of a revalidation `get` started
\* changes nothing; and every suspended `get` returns in the end, provided
\* the resolvers it awaits complete.
C19_GetIndependentOfRevalidation ==
    /\ [][/\ \A k \in Keys :
               (last'.op = "get" /\ last'.key = k /\ last'.hit)
               => /\ last'.status = "returned"
                  /\ last'.result = Stored(k).value
          /\ (last'.op = "revalidated" /\ last'.launched = "detached"
                 /\ last'.value = Rejects)
             => cache' = cache]_vars
    /\ \A t \in GetTasks : BagIn(t, tasks) ~> Returned(t)

\* C20: every stored item carries the configured ttl, so whenever some item is
\* expired every item of least start is; and a `set` that finds the Map full
\* removes, before it inserts, the expired items and nothing else if there
\* are any (e items, counted at the instant `set` starts), and one item of
\* least start otherwise: max(1, e) items.
C20_CandidateExpiredFirst ==
    [][/\ \A i \in 1..Len(cache) : cache[i].ttl = ttl
       /\ PastTtl(cache, now) # {} => Oldest(cache) \subseteq PastTtl(cache, now)
       /\ (last'.op = "set" /\ Full(cache))
          => LET e == Cardinality(PastTtl(cache, now))
                 new == Item(last'.key, now', ttl, last'.value)
             IN  \E kept \in SUBSET (1..Len(cache)) :
                     LET left == SelectSeq([i \in 1..Len(cache) |->
                                               [at |-> i, item |-> cache[i]]],
                                           LAMBDA x : x.at \in kept)
                         rest == [i \in 1..Len(left) |-> left[i].item]
                     IN  /\ Len(cache) - Cardinality(kept) = IF e > 1 THEN e ELSE 1
                         /\ IF e > 0
                            THEN kept = (1..Len(cache)) \ PastTtl(cache, now)
                            ELSE \E i \in Oldest(cache) : kept = (1..Len(cache)) \ {i}
                         /\ cache' = MapSet(rest, last'.key, new)]_vars

\* C21: a `get` that hits leaves the items of every other key as they were,
\* whatever the configuration, resetTtlOnGet with a full Map included.
C21_HitKeepsOtherKeys ==
    [][(last'.op = "get" /\ last'.hit)
       => \A k \in CapKeys \ {last'.key} : MapGet(cache', k) = MapGet(cache, k)]_vars

\* C22: when a delete(k) is followed, with no call in between, by the
\* completion of the function that a resolution of k, or a revalidation of k
\* started by `get`, was awaiting, k is still not in the Map.
C22_DeleteNotUndone ==
    [][(/\ last.op = "delete" /\ last'.key = last.key
        /\ \/ last'.op = "resolved"
           \/ last'.op = "revalidated" /\ last'.launched = "detached")
       => last.key \notin KeysOf(cache')]_vars

\* C23: when a set(k, v2) made while a `get` of k awaits a resolver is
\* followed, with no call in between, by that resolver completing with a
\* present value, the Map still holds v2 under k.
C23_WriteNotLost ==
    [][(/\ last.op = "set" /\ last'.op = "resolved" /\ last'.key = last.key
        /\ last'.value \in Values)
       => /\ last.key \in KeysOf(cache')
          /\ MapGet(cache', last.key)[1].value = last.value]_vars
====
